---- MODULE Spec2Model ----
(***************************************************************************)
(* PhantomEx: the decision-cycle and ledger engine.                        *)
(*                                                                         *)
(* One agent (core/agent.py Agent) with its ledger (core/portfolio.py      *)
(* Portfolio), the rows the persistence layer keeps for it (core/db.py),   *)
(* the feed loop and its cached price snapshot (core/market.py             *)
(* MarketFeed), the asyncio tasks of main.py that run decision cycles and  *)
(* approvals, and the agent's life in the registry (AgentRegistry: create, *)
(* load after a restart, remove).                                          *)
(*                                                                         *)
(* Money, quantities and times are integers.  avg_cost is an exact         *)
(* fraction [n, d] in lowest terms.  Python's None is NoneVal for the      *)
(* numeric fields.  A coroutine runs atomically up to the point where it   *)
(* can really be suspended: the only such points on the modelled paths are *)
(* the websocket sends of ConnectionManager.broadcast (the oracle client   *)
(* and sqlite are synchronous).  SpecOracle alone gives the oracle call a  *)
(* state of its own, in which the event loop serves nothing else.          *)
(***************************************************************************)
EXTENDS Integers, Sequences, FiniteSets, TLC

\* ---------------------------------------------------------------- bounds
MaxTime == 2
MaxAllowance == 4
MaxTasks == 2
MaxRows == 3
MaxFailures == 1
MaxExchanges == 3
MaxSnapshots == 3
MaxConnections == 2

\* ------------------------------------------------------ program constants
MAX_HISTORY_PAIRS == 10
DEFAULT_TRADE_INTERVAL == 60

\* ------------------------------------------------------- model domains
NoneVal == -1
Symbols == {"BTC"}
PriceValues == {1, 2}
Allowances == {3}
TradeIntervals == {1, 2}
Durations == {NoneVal, 0, 1}
DepositAmounts == {1, 2}
AnyAmounts == {-1, 0, 1, 2}
InitialHoldings == {[x \in {} |-> 0], [x \in {"BTC"} |-> 1], [x \in {"BTC"} |-> 0]}
Modes == {"autonomous", "advisory"}

VARIABLES
    now,               \* time.time()
    prices,            \* MarketFeed._prices
    cash,              \* Portfolio._cash
    holdings,          \* Portfolio._holdings
    db_allowance,      \* agents.allowance
    db_started_at,     \* agents.started_at
    db_trades,         \* trades rows of the agent, in insertion order
    db_portfolios,     \* portfolios rows of the agent, keyed by symbol
    db_failures,       \* how many transactions get_db has rolled back
    db_active,         \* agents.active (NoneVal: the agent has no row)
    db_mode,           \* agents.mode
    mode,              \* Agent.mode
    trade_interval,    \* Agent.trade_interval
    max_duration,      \* Agent.max_duration
    last_run_at,       \* Agent._last_run_at
    started_at,        \* Agent.started_at
    running,           \* Agent._running
    pending_decision,  \* Agent._pending_decision
    last_thought,      \* Agent.last_thought
    chat_history,      \* Agent._chat_history: the role of each message and, for
                       \* its content, the number of the exchange it belongs to
    registered,        \* the agent is in AgentRegistry._agents
    feed_mode,         \* MarketFeed.mode
    replay_file,       \* the snapshots of MarketFeed.replay_file, in file order
    feed_running,      \* MarketFeed._running
    feed_pc,           \* position of the MarketFeed.start task
    feed_next,         \* how many snapshots the replay loop has taken from the file
    delivered,         \* the snapshots the subscribers were called with, in order
                       \* (not program state)
    cyc,               \* position of each run_once task ("thinking": inside the
                       \* oracle call, in SpecOracle only)
    apr,               \* for each websocket connection, the decision its
                       \* approve_pending call is applying (suspended in on_trade);
                       \* NoDecision when it has no such call in progress
    last_exec,         \* the execute_trade call of the step just taken, if any
    last_cycle,        \* the run_once call of the step just taken, if any
    last_reply,        \* the decision think returned in the step just taken, if any
    last_applied,      \* the decision execute_decision was called with in the step
                       \* just taken, if any
    last_deposit,      \* the outcome of the deposit call of the step just taken, if any
    last_feed,         \* what the feed loop did in the step just taken, if anything
    last_registry,     \* the AgentRegistry call of the step just taken, if any
    oracle_at,         \* when the oracle was last invoked (not program state)
    stopped            \* a stop transition was taken since the session limit
                       \* was last set (not program state)

ledger_vars == <<cash, holdings>>
db_vars == <<db_allowance, db_started_at, db_trades, db_portfolios, db_failures,
             db_active, db_mode>>
agent_vars == <<mode, trade_interval, max_duration, last_run_at, started_at,
                running, pending_decision>>
thought_vars == <<last_thought, chat_history>>
feed_vars == <<feed_mode, replay_file, feed_running, feed_pc, feed_next, delivered>>
task_vars == <<cyc, apr>>
hist_vars == <<last_exec, last_cycle, last_reply, last_applied, last_deposit, last_feed,
               last_registry>>
vars == <<now, prices, ledger_vars, db_vars, agent_vars, thought_vars, registered,
          feed_vars, task_vars, hist_vars, oracle_at, stopped>>

\* no call of execute_trade / of run_once in the step
NoExec == [symbol |-> "", side |-> "", quantity |-> 0, price |-> 0, err |-> "none"]
NoCycle == "none"

\* no call of deposit in the step, and no step of the feed loop
NoDeposit == "none"
NoFeed == "none"

\* no call of create_agent, load_agents or remove in the step
NoRegistryCall == "none"


\* ------------------------------------------------------------- helpers
RECURSIVE GCD(_, _)
GCD(a, b) == IF b = 0 THEN a ELSE GCD(b, a % b)

\* a fraction n/d in lowest terms (d > 0)
Frac(n, d) == LET g == GCD(n, d) IN IF g = 0 THEN [n |-> 0, d |-> 1]
                                      ELSE [n |-> n \div g, d |-> d \div g]

\* str.lower() on the action strings of the model
Lower(s) == IF s = "SELL" THEN "sell" ELSE s

\* str.upper() on the symbol strings of the model
Upper(s) == IF s = "btc" THEN "BTC" ELSE s

\* A decision is the dict json.loads returned: the keys it has, and their
\* values (a key it does not have carries a filler that is never read).
DecisionKeys == {"action", "symbol", "quantity", "reasoning"}

\* None, as the value of _pending_decision
NoDecision == [action |-> "none", symbol |-> "", quantity |-> 0, reasoning |-> "",
               keys |-> {}]

\* a reply with all four keys
Decision(a, s, q) == [action |-> a, symbol |-> s, quantity |-> q,
                      reasoning |-> "because", keys |-> DecisionKeys]

\* a step that calls neither execute_trade, run_once nor deposit and is not
\* a step of the feed loop
NoCalls ==
    /\ last_exec' = NoExec
    /\ last_cycle' = NoCycle
    /\ last_deposit' = NoDeposit
    /\ last_feed' = NoFeed
    /\ last_registry' = NoRegistryCall
    /\ last_reply' = NoDecision
    /\ last_applied' = NoDecision
    /\ oracle_at' = oracle_at

\* decision.get(k, default)
Get(d, k, default) == IF k \in d.keys THEN d[k] ELSE default

\* None, as the value of last_thought
NoThought == [action |-> "none", symbol |-> "", quantity |-> 0, reasoning |-> ""]

\* oracle replies that parse: well-formed trades, a hold, and one with an
\* unknown action (the other malformed replies are in AllDecisions)
TradeDecisions == {Decision(a, "BTC", q) : a \in {"buy", "sell"}, q \in {1, 2}}
OddDecisions == {Decision("short", "BTC", 1)}
Decisions == {Decision("hold", "", 0)} \cup TradeDecisions \cup OddDecisions

\* the replies of the timing specification
FewDecisions == {Decision("hold", "", 0), Decision("buy", "BTC", 1)}

\* the replies of the persistence-failure specification
SomeDecisions == {Decision("hold", "", 0), Decision("buy", "BTC", 1), Decision("sell", "BTC", 1)}

\* replies that json.loads accepts although a key is missing
MissingAction == [action |-> "", symbol |-> "BTC", quantity |-> 1,
                  reasoning |-> "because", keys |-> DecisionKeys \ {"action"}]
MissingReasoning == [action |-> "hold", symbol |-> "", quantity |-> 0,
                     reasoning |-> "", keys |-> DecisionKeys \ {"reasoning"}]
MissingQuantity == [action |-> "buy", symbol |-> "BTC", quantity |-> 0,
                    reasoning |-> "because", keys |-> DecisionKeys \ {"quantity"}]

\* a hold with a reasoning of its own
HoldWaiting == [Decision("hold", "", 0) EXCEPT !.reasoning = "wait"]

\* the replies of the decision-handling specification: a hold, a trade that
\* the ledger accepts and one it rejects, trades that are discarded
\* (quantity 0 or below, empty symbol, symbol without a price), an unknown
\* action, an action in capitals, and the replies with a missing key
DiscardedDecisions == {Decision("buy", "BTC", 0), Decision("sell", "BTC", -1),
                       Decision("buy", "", 1), Decision("buy", "XYZ", 1)}
MalformedDecisions == {Decision("short", "BTC", 1), MissingAction, MissingReasoning,
                       MissingQuantity}
AllDecisions == {Decision("hold", "", 0), HoldWaiting, Decision("buy", "BTC", 1),
                 Decision("sell", "BTC", 1), Decision("SELL", "btc", 1)}
                \cup DiscardedDecisions \cup MalformedDecisions

\* the required keys are there and the action is one of the three
WellFormed(d) == d.keys = DecisionKeys /\ d.action \in {"buy", "sell", "hold"}

\* dict without a key
Remove(f, k) == [x \in DOMAIN f \ {k} |-> f[x]]

\* dict with f[k] = v
Put(f, k, v) == [x \in DOMAIN f \cup {k} |-> IF x = k THEN v ELSE f[x]]

EmptyMap == [x \in {} |-> 0]

RECURSIVE SumTotals(_, _)
SumTotals(rows, side) ==
    IF rows = <<>> THEN 0
    ELSE (IF Head(rows).side = side THEN Head(rows).total ELSE 0)
         + SumTotals(Tail(rows), side)

\* the clock at process start: time.time() is far larger than any interval,
\* so the first cycle of a fresh agent (_last_run_at = 0.0) is never throttled
Epoch == CHOOSE m \in TradeIntervals : \A x \in TradeIntervals : x <= m

\* ------------------------------------------------------------- Portfolio

\* the funds check of a buy: `if total > self._cash`
\* (variant: >= for >)
FundsCheckInclusive(total, c) == total >= c

\* (variant: no check)
FundsCheckMissing(total, c) == FALSE

InsufficientFunds(total, c) == total > c

\* the holdings check of a sell:
\* `symbol not in self._holdings or self._holdings[symbol]["quantity"] < quantity`
\* (variant: <= for <)
HoldingsCheckInclusive(h, symbol, quantity) ==
    symbol \notin DOMAIN h \/ h[symbol].quantity <= quantity

InsufficientHoldings(h, symbol, quantity) ==
    symbol \notin DOMAIN h \/ h[symbol].quantity < quantity

\* `self._cash -= total` of a buy, `self._cash += total` of a sell
\* (variant: a sell debits)
CashAfterSellDebits(c, side, total) == c - total

\* (variant: a sell credits nothing)
CashAfterSellIgnored(c, side, total) == IF side = "buy" THEN c - total ELSE c

CashAfter(c, side, total) == IF side = "buy" THEN c - total ELSE c + total

\* _holdings after a buy: weighted average with an existing position,
\* else a new holding at the trade price
\* (variant: the mean of the old average and the trade price, unweighted)
HoldingsAfterBuyUnweighted(h, symbol, quantity, price) ==
    IF symbol \in DOMAIN h
    THEN LET existing == h[symbol]
             new_qty == existing.quantity + quantity
             new_avg == Frac(existing.avg_cost.n + price * existing.avg_cost.d,
                             existing.avg_cost.d * 2)
         IN Put(h, symbol, [quantity |-> new_qty, avg_cost |-> new_avg])
    ELSE Put(h, symbol, [quantity |-> quantity, avg_cost |-> Frac(price, 1)])

HoldingsAfterBuy(h, symbol, quantity, price) ==
    IF symbol \in DOMAIN h
    THEN LET existing == h[symbol]
             new_qty == existing.quantity + quantity
             new_avg == Frac(existing.avg_cost.n * existing.quantity
                               + price * quantity * existing.avg_cost.d,
                             existing.avg_cost.d * new_qty)
         IN Put(h, symbol, [quantity |-> new_qty, avg_cost |-> new_avg])
    ELSE Put(h, symbol, [quantity |-> quantity, avg_cost |-> Frac(price, 1)])

\* _holdings after a sell: the quantity reduced, the holding deleted at <= 0
\* (variant: the holding deleted only below 0)
HoldingsAfterSellKeepsZero(h, symbol, quantity) ==
    LET q == h[symbol].quantity - quantity IN
    IF q < 0 THEN Remove(h, symbol)
    ELSE Put(h, symbol, [h[symbol] EXCEPT !.quantity = q])

HoldingsAfterSell(h, symbol, quantity) ==
    LET q == h[symbol].quantity - quantity IN
    IF q <= 0 THEN Remove(h, symbol)
    ELSE Put(h, symbol, [h[symbol] EXCEPT !.quantity = q])

\* Portfolio.execute_trade, the in-memory part (validation and mutation)
\* (variant: every side other than buy is handled as a sell)
ApplyTradeElseSell(c, h, symbol, side, quantity, price) ==
    LET total == quantity * price IN
    IF side = "buy" THEN
        IF InsufficientFunds(total, c)
        THEN [err |-> "InsufficientFunds", cash |-> c, holdings |-> h]
        ELSE [err |-> "ok", cash |-> CashAfter(c, side, total),
              holdings |-> HoldingsAfterBuy(h, symbol, quantity, price)]
    ELSE
        IF InsufficientHoldings(h, symbol, quantity)
        THEN [err |-> "InsufficientHoldings", cash |-> c, holdings |-> h]
        ELSE [err |-> "ok", cash |-> CashAfter(c, side, total),
              holdings |-> HoldingsAfterSell(h, symbol, quantity)]

ApplyTrade(c, h, symbol, side, quantity, price) ==
    LET total == quantity * price IN
    IF side = "buy" THEN
        IF InsufficientFunds(total, c)
        THEN [err |-> "InsufficientFunds", cash |-> c, holdings |-> h]
        ELSE [err |-> "ok", cash |-> CashAfter(c, side, total),
              holdings |-> HoldingsAfterBuy(h, symbol, quantity, price)]
    ELSE IF side = "sell" THEN
        IF InsufficientHoldings(h, symbol, quantity)
        THEN [err |-> "InsufficientHoldings", cash |-> c, holdings |-> h]
        ELSE [err |-> "ok", cash |-> CashAfter(c, side, total),
              holdings |-> HoldingsAfterSell(h, symbol, quantity)]
    ELSE [err |-> "InvalidSide", cash |-> c, holdings |-> h]

\* the row execute_trade inserts into trades
TradeRow(symbol, side, quantity, price, reasoning) ==
    [symbol |-> symbol, side |-> side, quantity |-> quantity, price |-> price,
     total |-> quantity * price, reasoning |-> reasoning]

\* the holdings upsert/delete of execute_trade, from the mutated _holdings
\* (variant: the row of a sold-out holding is kept)
UpsertHoldingNeverDeletes(ports, h, symbol) ==
    IF symbol \in DOMAIN h THEN Put(ports, symbol, h[symbol]) ELSE ports

UpsertHolding(ports, h, symbol) ==
    IF symbol \in DOMAIN h THEN Put(ports, symbol, h[symbol]) ELSE Remove(ports, symbol)

\* Portfolio.execute_trade as a whole.  dbok = FALSE: a statement inside the
\* "with get_db()" block raises, get_db rolls the transaction back and the
\* exception leaves execute_trade.
ExecuteTrade(c, h, trades, ports, symbol, side, quantity, price, reasoning, dbok) ==
    LET m == ApplyTrade(c, h, symbol, side, quantity, price) IN
    IF m.err # "ok"
    THEN [err |-> m.err, cash |-> c, holdings |-> h, trades |-> trades, portfolios |-> ports]
    ELSE IF ~dbok
    THEN [err |-> "DbError", cash |-> m.cash, holdings |-> m.holdings,
          trades |-> trades, portfolios |-> ports]
    ELSE [err |-> "ok", cash |-> m.cash, holdings |-> m.holdings,
          trades |-> Append(trades, TradeRow(symbol, side, quantity, price, reasoning)),
          portfolios |-> UpsertHolding(ports, m.holdings, symbol)]

\* Portfolio._load: cash and holdings of a Portfolio constructed from the rows
Load(allow, trades, ports) ==
    [cash |-> allow - SumTotals(trades, "buy") + SumTotals(trades, "sell"),
     holdings |-> ports]

\* ------------------------------------------------------------------ Agent

\* bool(prices) is False: the snapshot has no symbol
PricesEmpty(pr) == \A s \in Symbols : pr[s] = NoneVal

\* prices.get(symbol, {}).get("price")
PriceOf(pr, symbol) == IF symbol \in Symbols THEN pr[symbol] ELSE NoneVal

\* the row Agent._persist_hold inserts into trades
\* (variant: the reasoning is not stored)
HoldRowNoReasoning(reasoning) ==
    [symbol |-> "", side |-> "hold", quantity |-> 0, price |-> 0, total |-> 0,
     reasoning |-> ""]

HoldRow(reasoning) ==
    [symbol |-> "", side |-> "hold", quantity |-> 0, price |-> 0, total |-> 0,
     reasoning |-> reasoning]

\* the dict execute_decision stores in last_thought
Thought(d) ==
    [action |-> Lower(Get(d, "action", "hold")), symbol |-> Get(d, "symbol", ""),
     quantity |-> Get(d, "quantity", 0), reasoning |-> Get(d, "reasoning", "")]

\* the dict run_once stores in last_thought in advisory mode
AdvisoryThought(d) ==
    [action |-> Get(d, "action", "hold"), symbol |-> Get(d, "symbol", ""),
     quantity |-> Get(d, "quantity", 0), reasoning |-> Get(d, "reasoning", "")]

\* the number of the exchange think appends to history h: one more than
\* that of the newest message
NextExchange(h) == IF h = <<>> THEN 1 ELSE h[Len(h)].n + 1

\* the two messages of exchange n: the context sent and the raw reply
ExchangePair(n) == <<[role |-> "user", n |-> n], [role |-> "assistant", n |-> n]>>

\* _chat_history after think has appended an exchange and trimmed
\* (variant: the history is trimmed from the wrong end)
ExchangedKeepsOldest(h) ==
    LET all == h \o ExchangePair(NextExchange(h))
        max_msgs == MAX_HISTORY_PAIRS * 2
    IN  IF Len(all) > max_msgs
        THEN SubSeq(all, 1, max_msgs)
        ELSE all

Exchanged(h) ==
    LET all == h \o ExchangePair(NextExchange(h))
        max_msgs == MAX_HISTORY_PAIRS * 2
    IN  IF Len(all) > max_msgs
        THEN SubSeq(all, Len(all) - max_msgs + 1, Len(all))
        ELSE all

\* `if not price or quantity <= 0 or not symbol: return None`
\* (variant: the quantity is not looked at)
DiscardedIgnoresQuantity(price, quantity, symbol) ==
    price = NoneVal \/ price = 0 \/ symbol = ""

Discarded(price, quantity, symbol) ==
    price = NoneVal \/ price = 0 \/ quantity <= 0 \/ symbol = ""

\* execute_decision awaits on_trade with the record execute_trade returned:
\* the call is reached when execute_trade has not raised
\* (variant: on_trade is awaited whatever execute_trade did)
TradeNotifiedAlways(err) == TRUE

TradeNotified(err) == err = "ok"

\* Agent.execute_decision up to its first suspension or its return, on the
\* current state: the new ledger and rows, whether on_trade was
\* entered (emitted) and whether an exception left the coroutine (raised)
ExecuteDecision(d, pr, dbok) ==
    LET action == Lower(Get(d, "action", "hold"))
        reasoning == Get(d, "reasoning", "")
        symbol == Upper(Get(d, "symbol", ""))
        quantity == Get(d, "quantity", 0)
        price == PriceOf(pr, symbol)
        same == [cash |-> cash, holdings |-> holdings, trades |-> db_trades,
                 portfolios |-> db_portfolios, thought |-> Thought(d),
                 exec |-> NoExec, emitted |-> FALSE, raised |-> FALSE]
    IN  IF action = "hold"
        THEN [same EXCEPT !.trades = Append(db_trades, HoldRow(reasoning)),
                          !.emitted = TRUE]
        ELSE IF Discarded(price, quantity, symbol)
        THEN same
        ELSE LET r == ExecuteTrade(cash, holdings, db_trades, db_portfolios,
                                   symbol, action, quantity, price, reasoning, dbok)
             IN [cash |-> r.cash, holdings |-> r.holdings, trades |-> r.trades,
                 portfolios |-> r.portfolios, thought |-> Thought(d),
                 exec |-> [symbol |-> symbol, side |-> action,
                           quantity |-> quantity, price |-> price, err |-> r.err],
                 emitted |-> TradeNotified(r.err),
                 raised |-> (r.err = "DbError")]

\* `if self.max_duration and (now - self.started_at) >= self.max_duration`
\* (variant: > for >=)
DurationExceededStrict(md, started, t) == md # NoneVal /\ md # 0 /\ t - started > md

\* (variant: = for >=)
DurationExceededOnce(md, started, t) == md # NoneVal /\ md # 0 /\ t - started = md

DurationExceeded(md, started, t) == md # NoneVal /\ md # 0 /\ t - started >= md

\* the throttle test of run_once: `now - self._last_run_at < self.trade_interval`
\* (variant: the interval one second short)
ThrottledOneShort(t, last, interval) == t - last < interval - 1

\* (variant: no throttle)
ThrottledNever(t, last, interval) == FALSE

Throttled(t, last, interval) == t - last < interval



\* started_at after `if self.started_at is None: self.started_at = now`
\* (variant: stamped by every cycle)
StampedAlways(started, t) == t

Stamped(started, t) == IF started = NoneVal THEN t ELSE started

\* `if self.mode == "autonomous"` of run_once: the cycle applies its decision
\* (variant: a cycle applies its decision in either mode)
AppliedInAnyMode(m) == TRUE

AppliedAtOnce(m) == m = "autonomous"

\* `self._pending_decision = decision` of run_once, given the old value
\* (variant: a decision that is pending is kept)
QueuedUnlessPending(pending, d) == IF pending # NoDecision THEN pending ELSE d

Queued(pending, d) == d

\* on_price_update or trigger_trade: asyncio.create_task(agent.run_once(prices))
\* for an agent found in the registry; the task holds the agent and starts
\* on a later turn of the event loop
CreateTask(t) ==
    /\ UNCHANGED feed_vars
    /\ registered
    /\ cyc[t] = "idle"
    /\ cyc' = [cyc EXCEPT ![t] = "scheduled"]
    /\ UNCHANGED <<now, prices, ledger_vars, db_vars, agent_vars, thought_vars,
                   registered, apr, stopped>>
    /\ NoCalls

\* run_once from the return of think with decision d, up to its first
\* suspension or its return: the decision is applied or queued
Decided(t, d, dbfaults) ==
    /\ last_cycle' = "decided"
    /\ last_reply' = d
    /\ chat_history' = Exchanged(chat_history)
    /\ IF AppliedAtOnce(mode)
       THEN \E dbok \in dbfaults :
              LET r == ExecuteDecision(d, prices, dbok) IN
              /\ (~dbok => db_failures < MaxFailures)
              /\ cash' = r.cash
              /\ holdings' = r.holdings
              /\ db_trades' = r.trades
              /\ db_portfolios' = r.portfolios
              /\ db_failures' = db_failures + (IF r.raised THEN 1 ELSE 0)
              /\ last_thought' = r.thought
              /\ last_applied' = d
              /\ last_exec' = r.exec
              /\ cyc' = [cyc EXCEPT ![t] =
                           IF r.raised THEN "idle"
                           ELSE IF r.emitted THEN "on_trade"
                           ELSE "on_thought"]
              /\ UNCHANGED pending_decision
       ELSE /\ last_thought' = AdvisoryThought(d)
            /\ pending_decision' = Queued(pending_decision, d)
            /\ cyc' = [cyc EXCEPT ![t] = "on_decision"]
            /\ UNCHANGED <<ledger_vars, db_trades, db_portfolios, db_failures>>
            /\ last_applied' = NoDecision
            /\ last_exec' = NoExec
    /\ UNCHANGED <<now, prices, db_allowance, mode, trade_interval,
                   max_duration, running, apr>>

\* the oracle call of think fails, or its reply does not parse: run_once
\* catches the exception and returns
ThinkFailed(t) ==
    /\ last_cycle' = "error"
    /\ last_reply' = NoDecision
    /\ last_applied' = NoDecision
    /\ cyc' = [cyc EXCEPT ![t] = "idle"]
    /\ UNCHANGED <<now, prices, ledger_vars, db_allowance, db_trades,
                   db_portfolios, db_failures, mode, trade_interval, max_duration,
                   running, pending_decision, thought_vars, apr>>
    /\ last_exec' = NoExec

\* Agent.run_once run by task t (created by on_price_update or by
\* trigger_trade, either just now or in an earlier step), up to its first
\* suspension or its return.  The reply of the oracle is an input: an error
\* or any decision.
RunOnce(t, dbfaults, replies) ==
    /\ cyc[t] = "scheduled" \/ (cyc[t] = "idle" /\ registered)
    /\ Len(db_trades) < MaxRows
    /\ UNCHANGED <<registered, db_active, db_mode, feed_vars>>
    /\ last_deposit' = NoDeposit
    /\ last_feed' = NoFeed
    /\ last_registry' = NoRegistryCall
    /\ IF PricesEmpty(prices)
       THEN /\ last_cycle' = "skip_empty"
            /\ last_reply' = NoDecision
            /\ last_applied' = NoDecision
            /\ oracle_at' = oracle_at
            /\ cyc' = [cyc EXCEPT ![t] = "idle"]
            /\ UNCHANGED <<now, prices, ledger_vars, db_vars, agent_vars, thought_vars,
                           apr, stopped>>
            /\ last_exec' = NoExec
       ELSE IF Throttled(now, last_run_at, trade_interval)
       THEN /\ last_cycle' = "skip_throttle"
            /\ last_reply' = NoDecision
            /\ last_applied' = NoDecision
            /\ oracle_at' = oracle_at
            /\ cyc' = [cyc EXCEPT ![t] = "idle"]
            /\ UNCHANGED <<now, prices, ledger_vars, db_vars, agent_vars, thought_vars,
                           apr, stopped>>
            /\ last_exec' = NoExec
       ELSE
         /\ started_at' = Stamped(started_at, now)
         /\ db_started_at' = IF started_at = NoneVal THEN now ELSE db_started_at
         /\ IF DurationExceeded(max_duration, started_at', now)
            THEN /\ running' = FALSE
                 /\ stopped' = TRUE
                 /\ cyc' = [cyc EXCEPT ![t] = "on_thought"]
                 /\ last_cycle' = "stopped"
                 /\ last_reply' = NoDecision
                 /\ last_applied' = NoDecision
                 /\ oracle_at' = oracle_at
                 /\ UNCHANGED <<now, prices, ledger_vars, db_allowance, db_trades,
                                db_portfolios, db_failures, mode, trade_interval, max_duration,
                                last_run_at, pending_decision, thought_vars, apr>>
                 /\ last_exec' = NoExec
            ELSE
              /\ last_run_at' = now
              /\ oracle_at' = now
              /\ UNCHANGED stopped
              /\ \/ ThinkFailed(t)
                 \/ \E d \in replies : Decided(t, d, dbfaults)

\* think calls the oracle with `_ollama_client.chat(...)`, a synchronous call
\* of ollama.Client made on the thread of the event loop: from the call to
\* its return that thread runs no coroutine
Thinking == \E t \in 1..MaxTasks : cyc[t] = "thinking"

\* Agent.run_once run by task t up to the oracle call of think, for a call
\* that gets there (snapshot not empty, not throttled, session limit not
\* reached)
OracleCalled(t) ==
    /\ ~Thinking
    /\ cyc[t] = "scheduled" \/ (cyc[t] = "idle" /\ registered)
    /\ Len(db_trades) < MaxRows
    /\ ~PricesEmpty(prices)
    /\ ~Throttled(now, last_run_at, trade_interval)
    /\ ~DurationExceeded(max_duration, Stamped(started_at, now), now)
    /\ started_at' = Stamped(started_at, now)
    /\ db_started_at' = IF started_at = NoneVal THEN now ELSE db_started_at
    /\ last_run_at' = now
    /\ oracle_at' = now
    /\ cyc' = [cyc EXCEPT ![t] = "thinking"]
    /\ UNCHANGED <<now, prices, ledger_vars, db_allowance, db_trades, db_portfolios,
                   db_failures, db_active, db_mode, mode, trade_interval, max_duration,
                   running, pending_decision, thought_vars, registered, feed_vars, apr,
                   stopped>>
    /\ last_exec' = NoExec
    /\ last_cycle' = "thinking"
    /\ last_reply' = NoDecision
    /\ last_applied' = NoDecision
    /\ last_deposit' = NoDeposit
    /\ last_feed' = NoFeed
    /\ last_registry' = NoRegistryCall

\* the oracle call of task t returns or raises, and run_once goes on to its
\* first suspension or its return
OracleReturned(t, replies) ==
    /\ cyc[t] = "thinking"
    /\ UNCHANGED <<registered, db_active, db_mode, db_started_at, feed_vars, started_at,
                   last_run_at, oracle_at, stopped>>
    /\ last_deposit' = NoDeposit
    /\ last_feed' = NoFeed
    /\ last_registry' = NoRegistryCall
    /\ \/ ThinkFailed(t)
       \/ \E d \in replies : Decided(t, d, {TRUE})

\* on_trade (main.py) returns to execute_decision, which returns to run_once,
\* which enters on_thought
\* (variant: run_once ends without on_thought)
CycleTradeNotifiedOnly(t) ==
    /\ UNCHANGED feed_vars
    /\ cyc[t] = "on_trade"
    /\ cyc' = [cyc EXCEPT ![t] = "idle"]
    /\ UNCHANGED <<now, prices, ledger_vars, db_vars, agent_vars, thought_vars,
                   registered, apr, stopped>>
    /\ NoCalls

CycleTradeNotified(t) ==
    /\ UNCHANGED feed_vars
    /\ cyc[t] = "on_trade"
    /\ cyc' = [cyc EXCEPT ![t] = "on_thought"]
    /\ UNCHANGED <<now, prices, ledger_vars, db_vars, agent_vars, thought_vars,
                   registered, apr, stopped>>
    /\ NoCalls

\* on_decision (main.py) returns to run_once, which enters on_thought
CycleDecisionNotified(t) ==
    /\ UNCHANGED feed_vars
    /\ cyc[t] = "on_decision"
    /\ cyc' = [cyc EXCEPT ![t] = "on_thought"]
    /\ UNCHANGED <<now, prices, ledger_vars, db_vars, agent_vars, thought_vars,
                   registered, apr, stopped>>
    /\ NoCalls

\* on_thought (main.py) returns and run_once ends
CycleThoughtNotified(t) ==
    /\ UNCHANGED feed_vars
    /\ cyc[t] = "on_thought"
    /\ cyc' = [cyc EXCEPT ![t] = "idle"]
    /\ UNCHANGED <<now, prices, ledger_vars, db_vars, agent_vars, thought_vars,
                   registered, apr, stopped>>
    /\ NoCalls

\* `self._pending_decision = None` of approve_pending and reject_pending
\* (variant: the field is left alone)
ClearedPendingKept == pending_decision

ClearedPending == NoDecision

\* Agent.approve_pending (from handle_ws_message, for an agent found in the
\* registry, with the cached snapshot), up to the suspension inside on_trade
\* or to its return
ApprovePending(a, dbfaults) ==
    /\ registered
    /\ apr[a] = NoDecision
    /\ pending_decision # NoDecision
    /\ Len(db_trades) < MaxRows
    /\ \E dbok \in dbfaults :
         LET r == ExecuteDecision(pending_decision, prices, dbok) IN
         /\ (~dbok => db_failures < MaxFailures)
         /\ cash' = r.cash
         /\ holdings' = r.holdings
         /\ db_trades' = r.trades
         /\ db_portfolios' = r.portfolios
         /\ db_failures' = db_failures + (IF r.raised THEN 1 ELSE 0)
         /\ last_thought' = r.thought
         /\ last_applied' = pending_decision
         /\ last_exec' = r.exec
         /\ apr' = [apr EXCEPT ![a] = IF r.emitted THEN pending_decision ELSE NoDecision]
         /\ pending_decision' = IF r.raised \/ r.emitted THEN pending_decision
                                ELSE ClearedPending
    /\ UNCHANGED <<now, prices, db_allowance, db_started_at, mode, trade_interval,
                   max_duration, last_run_at, started_at, running, chat_history,
                   registered, cyc, stopped>>
    /\ UNCHANGED <<db_active, db_mode, feed_vars>>
    /\ last_cycle' = NoCycle
    /\ last_reply' = NoDecision
    /\ last_deposit' = NoDeposit
    /\ last_feed' = NoFeed
    /\ last_registry' = NoRegistryCall
    /\ oracle_at' = oracle_at

\* on_trade returns to approve_pending, which clears the pending decision
ApproveTradeNotified(a) ==
    /\ UNCHANGED feed_vars
    /\ apr[a] # NoDecision
    /\ apr' = [apr EXCEPT ![a] = NoDecision]
    /\ pending_decision' = ClearedPending
    /\ UNCHANGED <<now, prices, ledger_vars, db_vars, mode, trade_interval, max_duration,
                   last_run_at, started_at, running, thought_vars, registered, cyc,
                   stopped>>
    /\ NoCalls

\* Agent.reject_pending (from handle_ws_message, for an agent found in the
\* registry)
\* (variant: the throttle stamp is reset as well)
RejectPendingResetsThrottle ==
    /\ UNCHANGED feed_vars
    /\ registered
    /\ pending_decision # NoDecision
    /\ pending_decision' = ClearedPending
    /\ last_run_at' = 0
    /\ UNCHANGED <<now, prices, ledger_vars, db_vars, mode, trade_interval, max_duration,
                   started_at, running, thought_vars, registered, task_vars, stopped>>
    /\ NoCalls

RejectPending ==
    /\ UNCHANGED feed_vars
    /\ registered
    /\ pending_decision # NoDecision
    /\ pending_decision' = ClearedPending
    /\ UNCHANGED <<now, prices, ledger_vars, db_vars, mode, trade_interval, max_duration,
                   last_run_at, started_at, running, thought_vars, registered,
                   task_vars, stopped>>
    /\ NoCalls

\* Portfolio.deposit on cash c and recorded allowance allow: ValueError for
\* amount <= 0, else `UPDATE agents SET allowance = allowance + ?` and
\* `self._cash += amount`
\* (variant: the recorded allowance is not bumped)
PortfolioDepositCashOnly(c, allow, amount) ==
    IF amount <= 0
    THEN [err |-> "InvalidAmount", cash |-> c, allowance |-> allow]
    ELSE [err |-> "ok", cash |-> c + amount, allowance |-> allow]

PortfolioDeposit(c, allow, amount) ==
    IF amount <= 0
    THEN [err |-> "InvalidAmount", cash |-> c, allowance |-> allow]
    ELSE [err |-> "ok", cash |-> c + amount, allowance |-> allow + amount]

\* deposit_to_agent for an agent found in the registry: HTTP 400 for
\* amount <= 0, else Portfolio.deposit
Deposit(amount) ==
    /\ registered
    /\ db_allowance + amount <= MaxAllowance
    /\ LET r == IF amount <= 0
                THEN [err |-> "InvalidAmount", cash |-> cash, allowance |-> db_allowance]
                ELSE PortfolioDeposit(cash, db_allowance, amount)
       IN /\ db_allowance' = r.allowance
          /\ cash' = r.cash
          /\ last_deposit' = r.err
    /\ UNCHANGED <<now, prices, holdings, db_started_at, db_trades, db_portfolios, db_failures,
                   db_active, db_mode, agent_vars, thought_vars, registered, feed_vars,
                   task_vars, stopped>>
    /\ last_exec' = NoExec
    /\ last_cycle' = NoCycle
    /\ last_reply' = NoDecision
    /\ last_applied' = NoDecision
    /\ last_feed' = NoFeed
    /\ last_registry' = NoRegistryCall
    /\ oracle_at' = oracle_at

\* set_agent_mode
SetMode(m) ==
    /\ UNCHANGED feed_vars
    /\ registered
    /\ m # mode
    /\ mode' = m
    /\ UNCHANGED <<now, prices, ledger_vars, db_vars, trade_interval, max_duration,
                   last_run_at, started_at, running, pending_decision, thought_vars,
                   registered, task_vars, stopped>>
    /\ NoCalls

\* set_agent_duration: a new session limit (None clears it)
SetDuration(d) ==
    /\ UNCHANGED feed_vars
    /\ registered
    /\ d # max_duration
    /\ max_duration' = d
    /\ stopped' = FALSE
    /\ UNCHANGED <<now, prices, ledger_vars, db_vars, mode, trade_interval,
                   last_run_at, started_at, running, pending_decision, thought_vars,
                   registered, task_vars>>
    /\ NoCalls

\* a step that is a call of the registry and of nothing else
RegistryCall(name) ==
    /\ last_registry' = name
    /\ last_exec' = NoExec
    /\ last_cycle' = NoCycle
    /\ last_reply' = NoDecision
    /\ last_applied' = NoDecision
    /\ last_deposit' = NoDeposit
    /\ last_feed' = NoFeed
    /\ oracle_at' = oracle_at

\* AgentRegistry.remove, from delete_agent for an agent found in the registry
\* (variant: the agent's trade rows are deleted with it)
RegistryRemoveWithTrades ==
    /\ registered
    /\ registered' = FALSE
    /\ db_active' = 0
    /\ db_started_at' = NoneVal
    /\ db_trades' = <<>>
    /\ UNCHANGED <<now, prices, ledger_vars, db_allowance, db_portfolios,
                   db_failures, db_mode, agent_vars, thought_vars, feed_vars, task_vars,
                   stopped>>
    /\ RegistryCall("remove")

RegistryRemove ==
    /\ registered
    /\ registered' = FALSE
    /\ db_active' = 0
    /\ db_started_at' = NoneVal
    /\ UNCHANGED <<now, prices, ledger_vars, db_allowance, db_trades, db_portfolios,
                   db_failures, db_mode, agent_vars, thought_vars, feed_vars, task_vars,
                   stopped>>
    /\ RegistryCall("remove")

\* one round of MarketFeed._run_live that fetches and saves a snapshot and
\* reaches _notify: the feed caches the new snapshot and sleeps again
Notify(values) ==
    /\ feed_mode = "live" /\ feed_running /\ feed_pc = "sleeping"
    /\ UNCHANGED feed_vars
    /\ \E pr \in [Symbols -> values \cup {NoneVal}] :
         /\ pr # prices
         /\ prices' = pr
    /\ UNCHANGED <<now, ledger_vars, db_vars, agent_vars, thought_vars, registered,
                   task_vars, stopped>>
    /\ NoCalls

\* the symbols of the create request's initial_holdings that are seeded:
\* `if symbol not in prices or quantity <= 0: continue`
\* (variant: a symbol is seeded whether the snapshot prices it or not)
SeedableUnpriced(initial, pr) == {x \in DOMAIN initial : initial[x] > 0}

Seedable(initial, pr) ==
    {x \in DOMAIN initial : PriceOf(pr, x) # NoneVal /\ initial[x] > 0}

\* holdings (in memory, or the portfolios rows) after create_agent of main.py
\* has seeded the initial holdings at the snapshot's prices
Seeded(h, initial, pr) ==
    [x \in DOMAIN h \cup Seedable(initial, pr) |->
        IF x \in Seedable(initial, pr)
        THEN [quantity |-> initial[x], avg_cost |-> Frac(PriceOf(pr, x), 1)]
        ELSE h[x]]

\* create_agent of main.py: AgentRegistry.create_agent under a fresh id (no
\* row of any table carries it), which inserts the agents row and constructs
\* the Agent and, through Portfolio._load, its ledger; then the initial
\* holdings of the request are seeded
CreateAgent(allowance, m, interval, duration, initial) ==
    /\ db_active = NoneVal
    /\ db_active' = 1
    /\ db_allowance' = allowance
    /\ db_mode' = m
    /\ db_started_at' = NoneVal
    /\ mode' = m
    /\ trade_interval' = interval
    /\ max_duration' = duration
    /\ last_run_at' = 0
    /\ started_at' = NoneVal
    /\ running' = FALSE
    /\ pending_decision' = NoDecision
    /\ last_thought' = NoThought
    /\ chat_history' = <<>>
    /\ LET l == Load(allowance, db_trades, db_portfolios) IN
       /\ cash' = l.cash
       /\ holdings' = Seeded(l.holdings, initial, prices)
       /\ db_portfolios' = Seeded(db_portfolios, initial, prices)
    /\ registered' = TRUE
    /\ stopped' = FALSE
    /\ UNCHANGED <<now, prices, db_trades, db_failures, feed_vars, task_vars>>
    /\ RegistryCall("create")

\* `row["trade_interval"] or 60.0` of load_agents
RestoredInterval(interval) == IF interval = 0 THEN DEFAULT_TRADE_INTERVAL ELSE interval

\* `agent.started_at = row["started_at"]` of load_agents
\* (variant: the session timer starts afresh)
RestoredStartedAtFresh(row_started_at) == NoneVal

RestoredStartedAt(row_started_at) == row_started_at

\* the process is restarted: every task and every object in memory is gone,
\* lifespan runs AgentRegistry.load_agents, which constructs an Agent (and
\* through Portfolio._load its ledger) from every agents row with
\* active = 1, and a new feed with an empty cache is started.  The row's
\* max_duration and trade_interval are the values the agent had: they are
\* written to the row whenever they are assigned.
Restart ==
    /\ db_active # NoneVal
    /\ registered' = (db_active = 1)
    /\ mode' = db_mode
    /\ trade_interval' = RestoredInterval(trade_interval)
    /\ max_duration' = max_duration
    /\ started_at' = RestoredStartedAt(db_started_at)
    /\ last_run_at' = 0
    /\ running' = FALSE
    /\ pending_decision' = NoDecision
    /\ last_thought' = NoThought
    /\ chat_history' = <<>>
    /\ LET l == Load(db_allowance, db_trades, db_portfolios) IN
       /\ cash' = l.cash
       /\ holdings' = l.holdings
    /\ cyc' = [t \in 1..MaxTasks |-> "idle"]
    /\ apr' = [a \in 1..MaxConnections |-> NoDecision]
    /\ prices' = [x \in Symbols |-> NoneVal]
    /\ stopped' = FALSE
    /\ UNCHANGED <<now, db_vars, feed_vars>>
    /\ RegistryCall("load")

\* ------------------------------------------------------------ MarketFeed

\* a snapshot: the price of every symbol
Snapshots == [Symbols -> PriceValues]

\* the replay file: whether os.path.exists finds it, and its snapshots
NoFile == [exists |-> FALSE, snapshots |-> <<>>]
File(snaps) == [exists |-> TRUE, snapshots |-> snaps]
Files == {File(f) : f \in UNION {[1..n -> Snapshots] : n \in 0..MaxSnapshots}}

\* the frame of a step of the feed loop: agent, ledger, rows and tasks
FeedOnly ==
    /\ UNCHANGED <<now, ledger_vars, db_vars, agent_vars, thought_vars, registered,
                   task_vars, oracle_at, stopped>>
    /\ last_exec' = NoExec
    /\ last_cycle' = NoCycle
    /\ last_reply' = NoDecision
    /\ last_applied' = NoDecision
    /\ last_deposit' = NoDeposit
    /\ last_registry' = NoRegistryCall

\* MarketFeed._notify: the snapshot is cached and every subscriber is called
\* with it (what on_price_update does with it for the agents is CreateTask)
FeedNotify(snap) ==
    /\ prices' = snap
    /\ delivered' = Append(delivered, snap)

\* the snapshot the replay loop takes after n snapshots: `for snap in snapshots`
\* (variant: the loop never advances)
NextSnapshotStuck(file, n) == file.snapshots[1]

NextSnapshot(file, n) == file.snapshots[n + 1]

\* one iteration of `for snap in snapshots` of _run_replay, up to the sleep;
\* the loop ends when the file is exhausted or _running is False
ReplayStep ==
    IF feed_next < Len(replay_file.snapshots) /\ feed_running
    THEN /\ FeedNotify(NextSnapshot(replay_file, feed_next))
         /\ feed_next' = feed_next + 1
         /\ feed_pc' = "sleeping"
         /\ last_feed' = "replayed"
    ELSE /\ feed_pc' = "done"
         /\ last_feed' = "ended"
         /\ UNCHANGED <<prices, delivered, feed_next>>

\* MarketFeed.start, up to the first suspension of the loop it enters
FeedStart ==
    /\ feed_pc = "idle"
    /\ feed_running' = TRUE
    /\ UNCHANGED <<feed_mode, replay_file>>
    /\ IF feed_mode = "live"
       THEN /\ feed_pc' = "fetching"
            /\ last_feed' = "started"
            /\ UNCHANGED <<prices, delivered, feed_next>>
       ELSE IF ~replay_file.exists
       THEN /\ feed_pc' = "done"
            /\ last_feed' = "ended"
            /\ UNCHANGED <<prices, delivered, feed_next>>
       ELSE IF replay_file.snapshots = <<>>
       THEN /\ feed_pc' = "done"
            /\ last_feed' = "ended"
            /\ UNCHANGED <<prices, delivered, feed_next>>
       ELSE /\ FeedNotify(NextSnapshot(replay_file, feed_next))
            /\ feed_next' = feed_next + 1
            /\ feed_pc' = "sleeping"
            /\ last_feed' = "replayed"
    /\ FeedOnly

\* _run_live: _fetch_live or _save_snapshot raises; the exception is caught
\* and the loop goes to sleep
\* (variant: the exception ends the loop)
FetchFailedEndsLoop ==
    /\ feed_pc = "fetching"
    /\ feed_pc' = "done"
    /\ last_feed' = "fetch_failed"
    /\ UNCHANGED <<prices, feed_mode, replay_file, feed_running, feed_next, delivered>>
    /\ FeedOnly

FetchFailed ==
    /\ feed_pc = "fetching"
    /\ feed_pc' = "sleeping"
    /\ last_feed' = "fetch_failed"
    /\ UNCHANGED <<prices, feed_mode, replay_file, feed_running, feed_next, delivered>>
    /\ FeedOnly

\* _run_live: the fetch returns a snapshot, it is saved and the subscribers
\* are notified; the loop goes to sleep
FetchNotified ==
    /\ feed_pc = "fetching"
    /\ Len(delivered) < MaxSnapshots
    /\ \E snap \in Snapshots : FeedNotify(snap)
    /\ feed_pc' = "sleeping"
    /\ last_feed' = "fetched"
    /\ UNCHANGED <<feed_mode, replay_file, feed_running, feed_next>>
    /\ FeedOnly

\* asyncio.sleep(self.interval) returns: `while self._running` of _run_live,
\* or the next iteration of _run_replay
FeedWake ==
    /\ feed_pc = "sleeping"
    /\ UNCHANGED <<feed_mode, replay_file, feed_running>>
    /\ IF feed_mode = "live"
       THEN /\ feed_pc' = IF feed_running THEN "fetching" ELSE "done"
            /\ last_feed' = IF feed_running THEN "woke" ELSE "ended"
            /\ UNCHANGED <<prices, delivered, feed_next>>
       ELSE ReplayStep
    /\ FeedOnly

\* MarketFeed.stop
FeedStop ==
    /\ feed_running
    /\ feed_running' = FALSE
    /\ last_feed' = NoFeed
    /\ UNCHANGED <<prices, feed_mode, replay_file, feed_pc, feed_next, delivered>>
    /\ FeedOnly

\* a second passes
Tick ==
    /\ UNCHANGED feed_vars
    /\ now < Epoch + MaxTime
    /\ now' = now + 1
    /\ UNCHANGED <<prices, ledger_vars, db_vars, agent_vars, thought_vars, registered,
                   task_vars, stopped>>
    /\ NoCalls

\* the feed of main.py (`MarketFeed(mode="live", interval=60.0)`), started by
\* lifespan and asleep before its next round
LiveFeed ==
    /\ feed_mode = "live"
    /\ replay_file = NoFile
    /\ feed_running = TRUE
    /\ feed_pc = "sleeping"
    /\ feed_next = 0
    /\ delivered = <<>>

\* the agent after AgentRegistry.create_agent with the default mode
CreatedAgent(allowances) ==
    /\ now = Epoch
    /\ prices = [s \in Symbols |-> NoneVal]
    /\ db_allowance \in allowances
    /\ cash = Load(db_allowance, <<>>, EmptyMap).cash
    /\ holdings = Load(db_allowance, <<>>, EmptyMap).holdings
    /\ db_started_at = NoneVal
    /\ db_trades = <<>>
    /\ db_portfolios = EmptyMap
    /\ db_failures = 0
    /\ db_active = 1
    /\ mode = "autonomous"
    /\ db_mode = mode
    /\ last_run_at = 0
    /\ started_at = NoneVal
    /\ running = FALSE
    /\ pending_decision = NoDecision
    /\ last_thought = NoThought
    /\ chat_history = <<>>
    /\ registered = TRUE
    /\ cyc = [t \in 1..MaxTasks |-> "idle"]
    /\ apr = [a \in 1..MaxConnections |-> NoDecision]
    /\ last_exec = NoExec
    /\ last_cycle = NoCycle
    /\ last_reply = NoDecision
    /\ last_applied = NoDecision
    /\ last_deposit = NoDeposit
    /\ last_feed = NoFeed
    /\ last_registry = NoRegistryCall
    /\ oracle_at = NoneVal
    /\ stopped = FALSE

\* the state after AgentRegistry.create_agent, before the first feed tick
Created(allowances) ==
    /\ LiveFeed
    /\ CreatedAgent(allowances)

Agent(tasks, dbfaults, replies) ==
    \/ \E t \in tasks : RunOnce(t, dbfaults, replies)
    \/ \E t \in tasks : CycleTradeNotified(t)
    \/ \E t \in tasks : CycleDecisionNotified(t)
    \/ \E t \in tasks : CycleThoughtNotified(t)
    \/ ApprovePending(1, dbfaults)
    \/ ApproveTradeNotified(1)
    \/ RejectPending

\* the oracle answers MaxExchanges times and fails from then on
Answering(replies) == IF Len(chat_history) < 2 * MaxExchanges THEN replies ELSE {}

\* ---------------------------------------------------------------------
\* Spec: the timed system.  Throttle and session limit are in force, the
\* clock advances, the oracle replies from FewDecisions, persistence works;
\* the agent is created with an allowance of 1.
Init ==
    /\ Created({1})
    /\ trade_interval \in TradeIntervals
    /\ max_duration \in Durations

Next ==
    \/ Agent(1..MaxTasks, {TRUE}, FewDecisions)
    \/ \E m \in Modes : SetMode(m)
    \/ \E d \in Durations : SetDuration(d)
    \/ Notify({1})
    \/ Tick

Spec == Init /\ [][Next]_vars

\* ---------------------------------------------------------------------
\* SpecLedger: every sequence of ledger operations.  trade_interval = 0 and
\* no session limit, so no cycle is ever skipped for time and the clock
\* need not move; the oracle replies from all of Decisions; cycles are run
\* by one task at a time.  The agent is created autonomous and may be put
\* into advisory mode, where its decisions are applied by approvals (the
\* switch back to autonomous is in SpecDecide).
InitLedger ==
    /\ Created(Allowances)
    /\ trade_interval = 0
    /\ max_duration = NoneVal

LedgerEnvironment ==
    \/ \E a \in DepositAmounts : Deposit(a)
    \/ SetMode("advisory")
    \/ Notify(PriceValues)

NextLedger == Agent({1}, {TRUE}, Answering(Decisions)) \/ LedgerEnvironment

SpecLedger == InitLedger /\ [][NextLedger]_vars

\* SpecRoundTrip: trades and holds without deposits, the mode set in either
\* direction at any time: in autonomous mode a decision queued earlier can
\* be approved right after the trade of a cycle
NextRoundTrip ==
    \/ Agent({1}, {TRUE}, Answering(Decisions \ OddDecisions))
    \/ \E m \in Modes : SetMode(m)
    \/ Notify(PriceValues)

SpecRoundTrip == InitLedger /\ [][NextRoundTrip]_vars

\* SpecFault: SpecLedger where a statement of execute_trade's persistence
\* block may raise
NextFault == Agent({1}, {TRUE, FALSE}, Answering(SomeDecisions)) \/ LedgerEnvironment

SpecFault == InitLedger /\ [][NextFault]_vars

\* SpecDeposit: deposits of any amount, positive or not, between the cycles
\* of an autonomous agent that buys, sells and holds
NextDeposit ==
    \/ Agent({1}, {TRUE}, Answering(SomeDecisions))
    \/ \E a \in AnyAmounts : Deposit(a)
    \/ Notify(PriceValues)

SpecDeposit == InitLedger /\ [][NextDeposit]_vars

\* ---------------------------------------------------------------------
\* SpecRegistry: the timed system where run_once tasks wait for their turn
\* of the event loop after create_task, and delete_agent removes the agent.
\* A waiting task starts before the feed's next snapshot.
NoTaskScheduled == \A t \in 1..MaxTasks : cyc[t] # "scheduled"

NextRegistry ==
    \/ Agent(1..MaxTasks, {TRUE}, FewDecisions)
    \/ \E t \in 1..MaxTasks : CreateTask(t)
    \/ RegistryRemove
    \/ \E m \in Modes : SetMode(m)
    \/ (NoTaskScheduled /\ Notify({1}))
    \/ Tick

SpecRegistry == Init /\ [][NextRegistry]_vars

\* ---------------------------------------------------------------------
\* SpecDecide: decision handling.  Every kind of reply the parser lets
\* through (AllDecisions), both modes, approvals and rejections; no throttle
\* and no session limit; the agent is created with an allowance of 2 and
\* the feed quotes a price of 1, a price of 0 or nothing.
InitDecide ==
    /\ Created({2})
    /\ trade_interval = 0
    /\ max_duration = NoneVal

NextDecide ==
    \/ Agent({1}, {TRUE}, Answering(AllDecisions))
    \/ \E m \in Modes : SetMode(m)
    \/ Notify({0, 1})

SpecDecide == InitDecide /\ [][NextDecide]_vars

\* ---------------------------------------------------------------------
\* SpecApprove: approvals arriving on several websocket connections.  Each
\* connection handles its messages one at a time (websocket_endpoint awaits
\* handle_ws_message before it receives again), different connections are
\* served by different tasks.  The agent is created with an allowance of 2,
\* the feed quotes a price of 1, the oracle replies hold or buy; no
\* throttle and no session limit.
NextApprove ==
    \/ Agent({1}, {TRUE}, Answering(FewDecisions))
    \/ \E a \in 2..MaxConnections : ApprovePending(a, {TRUE})
    \/ \E a \in 2..MaxConnections : ApproveTradeNotified(a)
    \/ \E m \in Modes : SetMode(m)
    \/ Notify({1})

SpecApprove == InitDecide /\ [][NextApprove]_vars

\* ---------------------------------------------------------------------
\* SpecOracle: the event loop with the oracle call as a state of its own.
\* asyncio runs every coroutine on one thread; while that thread is inside
\* the synchronous oracle call of one task, the feed loop and the other
\* tasks get no turn, and only the clock moves.  An autonomous agent with
\* an allowance of 2, no throttle and no session limit; the live feed
\* fetches, fails and sleeps.

\* a turn of the event loop given to the feed task
FeedTurn == ~Thinking /\ (FeedWake \/ FetchFailed \/ FetchNotified)

\* a turn of the event loop given to task t, suspended in a callback or
\* created while the snapshot is empty
CycleTurn(t) ==
    /\ ~Thinking
    /\ \/ CycleTradeNotified(t)
       \/ CycleThoughtNotified(t)
       \/ (PricesEmpty(prices) /\ RunOnce(t, {TRUE}, {}))

NextOracle ==
    \/ \E t \in 1..MaxTasks : OracleCalled(t)
    \/ \E t \in 1..MaxTasks : OracleReturned(t, Answering(FewDecisions))
    \/ \E t \in 1..MaxTasks : CycleTurn(t)
    \/ FeedTurn
    \/ Tick

SpecOracle == InitDecide /\ [][NextOracle]_vars

\* ---------------------------------------------------------------------
\* SpecHistory: the rolling history past its limit.  The oracle answers
\* (or fails) MAX_HISTORY_PAIRS + MaxExchanges times; the agent holds or is
\* switched to advisory mode, where its decisions are queued, approved and
\* rejected; no throttle and no session limit.
LongAnswering(replies) ==
    IF NextExchange(chat_history) <= MAX_HISTORY_PAIRS + MaxExchanges THEN replies ELSE {}

NextHistory ==
    \/ Agent({1}, {TRUE}, LongAnswering({Decision("hold", "", 0)}))
    \/ \E m \in Modes : SetMode(m)
    \/ Notify({1})

SpecHistory == InitDecide /\ [][NextHistory]_vars

\* ---------------------------------------------------------------------
\* SpecLife: the life of an agent from before its creation: the create
\* request (any mode, with or without initial holdings, before or after the
\* feed's first snapshot), its cycles and approvals, its removal, and
\* restarts of the process at any moment.
InitLife ==
    /\ LiveFeed
    /\ now = Epoch
    /\ prices = [x \in Symbols |-> NoneVal]
    /\ cash = 0
    /\ holdings = EmptyMap
    /\ db_allowance = 0
    /\ db_started_at = NoneVal
    /\ db_trades = <<>>
    /\ db_portfolios = EmptyMap
    /\ db_failures = 0
    /\ db_active = NoneVal
    /\ db_mode = "autonomous"
    /\ mode = "autonomous"
    /\ trade_interval = 1
    /\ max_duration = NoneVal
    /\ last_run_at = 0
    /\ started_at = NoneVal
    /\ running = FALSE
    /\ pending_decision = NoDecision
    /\ last_thought = NoThought
    /\ chat_history = <<>>
    /\ registered = FALSE
    /\ cyc = [t \in 1..MaxTasks |-> "idle"]
    /\ apr = [a \in 1..MaxConnections |-> NoDecision]
    /\ last_exec = NoExec
    /\ last_cycle = NoCycle
    /\ last_reply = NoDecision
    /\ last_applied = NoDecision
    /\ last_deposit = NoDeposit
    /\ last_feed = NoFeed
    /\ last_registry = NoRegistryCall
    /\ oracle_at = NoneVal
    /\ stopped = FALSE

NextLife ==
    \/ \E m \in Modes, d \in {NoneVal, 1}, i \in InitialHoldings :
          CreateAgent(2, m, 1, d, i)
    \/ Restart
    \/ RegistryRemove
    \/ Agent({1}, {TRUE}, Answering(FewDecisions))
    \/ \E m \in Modes : SetMode(m)
    \/ Notify({1})
    \/ Tick

SpecLife == InitLife /\ [][NextLife]_vars

\* ---------------------------------------------------------------------
\* SpecFeed: the feed loop, live or replaying any file of up to MaxSnapshots
\* snapshots (or a file that is not there), from before MarketFeed.start;
\* stop may be called at any time.  Sleeps end and fetches return (httpx
\* timeout), which is the fairness of the loop's own steps.
InitFeed ==
    /\ CreatedAgent({1})
    /\ trade_interval = 1
    /\ max_duration = NoneVal
    /\ feed_mode \in {"live", "replay"}
    /\ replay_file \in (IF feed_mode = "live" THEN {NoFile} ELSE Files \cup {NoFile})
    /\ feed_running = FALSE
    /\ feed_pc = "idle"
    /\ feed_next = 0
    /\ delivered = <<>>

NextFeed ==
    \/ FeedStart
    \/ FetchFailed
    \/ FetchNotified
    \/ FeedWake
    \/ FeedStop

SpecFeed ==
    /\ InitFeed /\ [][NextFeed]_vars
    /\ WF_vars(FeedStart) /\ WF_vars(FeedWake) /\ WF_vars(FetchFailed \/ FetchNotified)

TypeOK ==
    /\ now \in Epoch..(Epoch + MaxTime)
    /\ cash \in Int
    /\ mode \in Modes
    /\ pending_decision \in Decisions \cup AllDecisions \cup {NoDecision}
    /\ \A t \in 1..MaxTasks :
         cyc[t] \in {"idle", "scheduled", "thinking", "on_trade", "on_decision",
                    "on_thought"}
    /\ Len(chat_history) <= 2 * MAX_HISTORY_PAIRS
    /\ registered \in BOOLEAN
    /\ stopped \in BOOLEAN
    /\ last_thought.action \in {"none", "hold", "buy", "sell", "short", "SELL"}
    /\ apr \in [1..MaxConnections -> Decisions \cup AllDecisions \cup {NoDecision}]
    /\ db_active \in {NoneVal, 0, 1}
    /\ db_mode \in Modes
    /\ feed_mode \in {"live", "replay"}
    /\ feed_running \in BOOLEAN
    /\ feed_pc \in {"idle", "fetching", "sleeping", "done"}
    /\ feed_next \in 0..(MaxSnapshots + 1)
    /\ Len(delivered) <= MaxSnapshots
    /\ last_deposit \in {"none", "ok", "InvalidAmount"}
    /\ last_feed \in {"none", "started", "fetched", "fetch_failed", "woke",
                       "replayed", "ended"}
    /\ last_registry \in {"none", "create", "load", "remove"}

\* ------------------------------------------------------------ properties

ExecCalled == last_exec' # NoExec
CycleCalled == last_cycle' # NoCycle
LedgerUnchanged == UNCHANGED <<cash, holdings, db_trades, db_portfolios>>
HasRow(side) == \E i \in 1..Len(db_trades) : db_trades[i].side = side

\* C1: the in-memory cash equals the recorded allowance plus the totals of
\* the agent's sell rows minus the totals of its buy rows, after any sequence
\* of trades (accepted or rejected), hold cycles and decision cycles.
C1_CashMatchesLog ==
    cash = db_allowance + SumTotals(db_trades, "sell") - SumTotals(db_trades, "buy")

C1_Witness ==
    /\ HasRow("buy") /\ HasRow("sell") /\ HasRow("hold")
    /\ SumTotals(db_trades, "sell") # SumTotals(db_trades, "buy")

\* C2: cash never goes below 0 and no holding has a quantity below 0, under
\* trades, deposits, decision cycles and approvals.
C2_Solvent ==
    /\ cash >= 0
    /\ \A s \in DOMAIN holdings : holdings[s].quantity >= 0

C2_Witness ==
    /\ last_exec.side = "buy" /\ last_exec.err = "ok"
    /\ cash = 0
    /\ db_allowance \notin Allowances
    /\ apr[1] # NoDecision

\* C3: every holding in the map, and every row of the persisted snapshot, has
\* a quantity above 0; a sell of the whole position removes the holding from
\* both.
C3_NoZeroHolding ==
    [][/\ \A s \in DOMAIN holdings' : holdings'[s].quantity > 0
       /\ \A s \in DOMAIN db_portfolios' : db_portfolios'[s].quantity > 0
       /\ (/\ ExecCalled
           /\ last_exec'.side = "sell" /\ last_exec'.err = "ok"
           /\ holdings[last_exec'.symbol].quantity = last_exec'.quantity)
          => /\ last_exec'.symbol \notin DOMAIN holdings'
             /\ last_exec'.symbol \notin DOMAIN db_portfolios']_vars

C3_Witness ==
    /\ last_exec.side = "sell" /\ last_exec.err = "ok"
    /\ last_exec.symbol \notin DOMAIN holdings
    /\ last_exec.symbol \notin DOMAIN db_portfolios

\* C4: a buy is rejected for insufficient funds exactly when quantity * price
\* exceeds cash; a rejected buy changes neither cash, holdings, the trade log
\* nor the persisted snapshot; a buy whose total equals cash is accepted and
\* leaves cash at 0.
C4_BuyFunds ==
    [][(ExecCalled /\ last_exec'.side = "buy") =>
         LET total == last_exec'.quantity * last_exec'.price IN
         /\ (last_exec'.err = "InsufficientFunds") <=> (total > cash)
         /\ (last_exec'.err = "InsufficientFunds") => LedgerUnchanged
         /\ (total = cash) => (last_exec'.err = "ok" /\ cash' = 0)]_vars

C4_Witness ==
    /\ last_exec.side = "buy" /\ last_exec.err = "InsufficientFunds"
    /\ cash > 0
    /\ "BTC" \in DOMAIN holdings

\* C5: a sell of a symbol that is not held, or of more than is held, is
\* rejected for insufficient holdings and changes neither cash, holdings, the
\* trade log nor the persisted snapshot; a sell of exactly the held quantity
\* is accepted.
C5_SellHoldings ==
    [][(ExecCalled /\ last_exec'.side = "sell") =>
         LET sym == last_exec'.symbol
             held == sym \in DOMAIN holdings
         IN
         /\ (~held \/ last_exec'.quantity > holdings[sym].quantity)
              => (last_exec'.err = "InsufficientHoldings" /\ LedgerUnchanged)
         /\ (held /\ last_exec'.quantity = holdings[sym].quantity)
              => last_exec'.err = "ok"]_vars

C5_Witness ==
    /\ last_exec.side = "sell" /\ last_exec.err = "InsufficientHoldings"
    /\ last_exec.symbol \in DOMAIN holdings

\* C6: when persisting a trade fails inside execute_trade, the in-memory cash
\* and holdings afterwards equal their values before the trade.
C6_RollbackOnDbError ==
    [][(ExecCalled /\ last_exec'.err = "DbError")
         => (cash' = cash /\ holdings' = holdings)]_vars

\* C7: a ledger constructed by load from the persisted rows has the cash and
\* the holdings (symbols, quantities, avg_cost) of the live ledger, after any
\* sequence of trades, rejected trades, hold cycles and deposits.
C7_LoadEqualsLive ==
    Load(db_allowance, db_trades, db_portfolios) = [cash |-> cash, holdings |-> holdings]

C7_Witness ==
    /\ "BTC" \in DOMAIN holdings
    /\ holdings["BTC"].avg_cost.d = 2
    /\ db_allowance \notin Allowances
    /\ HasRow("buy")

OracleInvoked == CycleCalled /\ last_cycle' \in {"error", "decided"}
InFlight == {t \in 1..MaxTasks : cyc[t] # "idle"}

\* C8: two run_once calls of one agent less than trade_interval seconds apart
\* invoke the oracle at most once: whenever the oracle is invoked, its
\* previous invocation lies at least trade_interval seconds back, whatever
\* the interleaving of the tasks.
C8_ThrottleOneOracleCall ==
    [][OracleInvoked => (oracle_at = NoneVal \/ now - oracle_at >= trade_interval)]_vars

C8_Witness ==
    /\ last_cycle = "skip_throttle"
    /\ oracle_at # NoneVal /\ now > oracle_at
    /\ InFlight # {}

\* C9: at most one decision cycle of the agent is in progress at any time.
C9_OneCycleInProgress == Cardinality(InFlight) <= 1

\* C10 as stated: a run_once call made when max_duration is set (here even:
\* set and positive) and now - started_at >= max_duration takes the stop
\* transition.
C10_StopsOnNextCall ==
    [][(/\ CycleCalled
        /\ max_duration # NoneVal /\ max_duration > 0
        /\ started_at # NoneVal
        /\ now - started_at >= max_duration)
       => last_cycle' = "stopped"]_vars

\* C10 amended: a run_once call that is not skipped (empty snapshot or
\* throttle), made when max_duration is set and not 0 and
\* now - started_at >= max_duration, takes the stop transition: _running is
\* False, the state notification is entered, and the oracle is not invoked,
\* _last_run_at is not moved and no ledger or trade row changes.  A skipped
\* call does not invoke the oracle either.
C10_StopsOnNextRealCall ==
    [][(/\ CycleCalled
        /\ max_duration # NoneVal /\ max_duration # 0
        /\ started_at # NoneVal
        /\ now - started_at >= max_duration)
       => /\ last_cycle' \in {"stopped", "skip_empty", "skip_throttle"}
          /\ ~OracleInvoked
          /\ oracle_at' = oracle_at
          /\ last_cycle' = "stopped" <=> (~PricesEmpty(prices) /\ now - last_run_at >= trade_interval)
          /\ last_cycle' = "stopped" =>
               /\ running' = FALSE
               /\ \E t \in 1..MaxTasks : cyc[t] = "idle" /\ cyc'[t] = "on_thought"
               /\ last_run_at' = last_run_at
               /\ LedgerUnchanged]_vars

C10_Witness ==
    /\ last_cycle = "stopped"
    /\ max_duration > 0
    /\ now - started_at >= max_duration
    /\ now > started_at
    /\ oracle_at = started_at

\* C11: once the agent has taken the stop transition, no later run_once call
\* invokes the oracle, appends a trade row or changes cash, holdings or the
\* persisted snapshot, until set_agent_duration gives it a new session limit.
C11_StoppedIsTerminal ==
    [][(stopped /\ CycleCalled)
         => (~OracleInvoked /\ oracle_at' = oracle_at /\ LedgerUnchanged)]_vars

C11_Witness ==
    /\ stopped
    /\ last_cycle = "stopped"
    /\ \A t \in 1..MaxTasks : cyc[t] = "on_thought"
    /\ chat_history = <<>>
    /\ now - started_at > max_duration

\* C12: after the agent has been stopped or removed, a run_once call of a
\* cycle that was scheduled or in flight at that moment invokes no oracle,
\* appends no trade row and changes neither cash, holdings nor the persisted
\* snapshot.
C12_ResultDiscarded ==
    [][((stopped \/ ~registered) /\ CycleCalled)
         => (~OracleInvoked /\ LedgerUnchanged)]_vars

\* C13: a run_once call whose oracle call or reply parsing fails leaves cash,
\* holdings, the trade rows, the persisted snapshot, the pending decision,
\* last_thought and the rolling history as they were and stamps the attempt
\* in _last_run_at; and the oracle is only ever invoked when trade_interval
\* has passed since that stamp, so not again before trade_interval has
\* elapsed since the failed call.
C13_FailedCycleChangesNothing ==
    [][/\ (CycleCalled /\ last_cycle' = "error")
            => /\ LedgerUnchanged
               /\ UNCHANGED <<pending_decision, last_thought, chat_history>>
               /\ last_run_at' = now /\ oracle_at' = now
       /\ OracleInvoked
            => \/ oracle_at = NoneVal
               \/ (last_run_at = oracle_at /\ now - last_run_at >= trade_interval)]_vars

C13_Witness ==
    /\ last_cycle = "error"
    /\ pending_decision # NoDecision
    /\ last_thought # NoThought
    /\ chat_history # <<>>
    /\ "BTC" \in DOMAIN holdings
    /\ InFlight # {}

\* C14: a reply that json.loads accepts but that is not a well-formed
\* decision (a required key missing, or an action outside buy, sell, hold)
\* is never applied, never stored as pending and never produces a trade row:
\* the cycle that received it leaves cash, holdings, the trade rows, the
\* persisted snapshot and the pending decision as they were.
C14_MalformedReplyUnused ==
    [][(last_reply' # NoDecision /\ ~WellFormed(last_reply'))
         => (LedgerUnchanged /\ pending_decision' = pending_decision)]_vars

\* the step is a run_once call in which think returned a hold
HoldDecided == last_reply' # NoDecision /\ WellFormed(last_reply') /\ last_reply'.action = "hold"

\* the step appends exactly the hold row of the reply and leaves cash,
\* holdings and the persisted snapshot alone
HoldRowAppended ==
    /\ db_trades' = Append(db_trades, [symbol |-> "", side |-> "hold", quantity |-> 0,
                                       price |-> 0, total |-> 0,
                                       reasoning |-> last_reply'.reasoning])
    /\ UNCHANGED <<cash, holdings, db_portfolios>>

\* a cycle that has entered on_trade goes on to on_thought, and one that has
\* entered on_thought ends: on_thought is entered once per cycle
OneStateNotification ==
    \A t \in 1..MaxTasks :
        /\ (cyc[t] = "on_trade" /\ cyc'[t] # cyc[t]) => cyc'[t] = "on_thought"
        /\ (cyc[t] = "on_thought" /\ cyc'[t] # cyc[t]) => cyc'[t] = "idle"

\* C15 as stated: every cycle whose decision is hold appends exactly one hold
\* row with the decision's reasoning, leaves cash and holdings unchanged and
\* goes on to one state notification.
C15_HoldCycle ==
    [][/\ HoldDecided
            => /\ HoldRowAppended
               /\ \E t \in 1..MaxTasks : cyc[t] # "on_trade" /\ cyc'[t] = "on_trade"
       /\ OneStateNotification]_vars

\* C15 amended: a cycle of an autonomous agent whose decision is hold does
\* so; a cycle of an advisory agent queues the hold as the pending decision
\* and appends no row (the row is appended when the hold is approved); both
\* go on to one state notification.
C15_AutonomousHoldCycle ==
    [][/\ (HoldDecided /\ mode = "autonomous")
            => /\ HoldRowAppended
               /\ \E t \in 1..MaxTasks : cyc[t] # "on_trade" /\ cyc'[t] = "on_trade"
       /\ (HoldDecided /\ mode = "advisory")
            => /\ LedgerUnchanged
               /\ pending_decision' = last_reply'
               /\ \E t \in 1..MaxTasks : cyc[t] # "on_decision" /\ cyc'[t] = "on_decision"
       /\ OneStateNotification]_vars

C15_Witness ==
    /\ last_reply = HoldWaiting
    /\ mode = "autonomous"
    /\ db_trades # <<>>
    /\ db_trades[Len(db_trades)].side = "hold"
    /\ db_trades[Len(db_trades)].reasoning = "wait"
    /\ "BTC" \in DOMAIN holdings
    /\ cyc[1] = "on_trade"

\* the step calls execute_decision, from run_once or from approve_pending
DecisionApplied == last_applied' # NoDecision
Approved == DecisionApplied /\ last_cycle' = NoCycle

\* a buy or sell whose quantity is not positive, whose symbol is empty or
\* whose symbol has no entry in the snapshot
IsNoOp(d, pr) ==
    /\ Lower(Get(d, "action", "hold")) \in {"buy", "sell"}
    /\ \/ Get(d, "quantity", 0) <= 0
       \/ Get(d, "symbol", "") = ""
       \/ PriceOf(pr, Upper(Get(d, "symbol", ""))) = NoneVal

\* C16: applying such a decision, in a cycle or in approve_pending, appends
\* no row, leaves cash, holdings and the persisted snapshot unchanged, calls
\* neither execute_trade nor on_trade, and returns normally: the cycle goes
\* on to its state notification, the approval ends with nothing pending.
C16_MalformedTradeIsNoOp ==
    [][(DecisionApplied /\ IsNoOp(last_applied', prices))
         => /\ LedgerUnchanged
            /\ ~ExecCalled
            /\ \A t \in 1..MaxTasks : cyc'[t] = "on_trade" => cyc[t] = "on_trade"
            /\ apr'[1] # NoDecision => apr[1] # NoDecision
            /\ Approved => (apr'[1] = NoDecision /\ pending_decision' = NoDecision)
            /\ ~Approved => \E t \in 1..MaxTasks :
                                cyc[t] # "on_thought" /\ cyc'[t] = "on_thought"]_vars

C16_Witness ==
    /\ last_applied = Decision("buy", "BTC", 1)
    /\ last_cycle = NoCycle
    /\ PricesEmpty(prices)
    /\ pending_decision = NoDecision
    /\ db_trades # <<>>

\* the step is a cycle of an advisory agent in which think returned a decision
AdvisoryDecided == last_reply' # NoDecision /\ mode = "advisory"

\* C17: the pending decision is one decision or none; a cycle of an advisory
\* agent overwrites it with its own decision; an approval applies the
\* decision that is pending at that moment and a cycle applies only its own
\* reply, so a decision that was overwritten is not applied afterwards.
C17_LastWriteWins ==
    [][/\ pending_decision' \in AllDecisions \cup {NoDecision}
       /\ AdvisoryDecided => pending_decision' = last_reply'
       /\ Approved => last_applied' = pending_decision
       /\ (DecisionApplied /\ ~Approved) => last_applied' = last_reply']_vars

C17_Witness ==
    /\ last_applied = HoldWaiting
    /\ last_cycle = NoCycle
    /\ mode = "advisory"
    /\ Len(chat_history) = 4
    /\ db_trades = <<HoldRow("wait")>>
    /\ last_thought = Thought(HoldWaiting)
    /\ apr[1] # NoDecision

\* the step changes the ledger, the rows and the execute_trade outcome as
\* execute_decision does for decision d against the cached snapshot
AppliedAs(d) ==
    LET r == ExecuteDecision(d, prices, TRUE) IN
    /\ cash' = r.cash /\ holdings' = r.holdings
    /\ db_trades' = r.trades /\ db_portfolios' = r.portfolios
    /\ last_thought' = r.thought
    /\ last_exec' = r.exec

\* C18: an approval applies the pending decision with the effect execute_decision
\* has for it in an autonomous cycle against the same snapshot: the same cash,
\* holdings, rows and execute_trade outcome, and on_trade entered in the
\* same cases; when the approval has returned (at once for a rejected or
\* discarded trade, after on_trade otherwise) no decision is pending; and
\* nothing is applied by an approval when no decision is pending.
C18_ApproveAsAutonomous ==
    [][/\ Approved
            => /\ pending_decision # NoDecision
               /\ AppliedAs(pending_decision)
               /\ apr'[1] # NoDecision <=> ExecuteDecision(pending_decision, prices, TRUE).emitted
               /\ apr'[1] = NoDecision => pending_decision' = NoDecision
       /\ (DecisionApplied /\ ~Approved)
            => /\ AppliedAs(last_reply')
               /\ (\E t \in 1..MaxTasks : cyc[t] # "on_trade" /\ cyc'[t] = "on_trade")
                    <=> ExecuteDecision(last_reply', prices, TRUE).emitted
       /\ (apr[1] # NoDecision /\ apr'[1] = NoDecision) => pending_decision' = NoDecision
       /\ (pending_decision = NoDecision /\ ~AdvisoryDecided)
            => (pending_decision' = NoDecision /\ ~Approved)]_vars

C18_Witness ==
    /\ last_applied = Decision("sell", "BTC", 1)
    /\ last_cycle = NoCycle
    /\ last_exec.err = "InsufficientHoldings"
    /\ pending_decision = NoDecision
    /\ apr[1] = NoDecision
    /\ db_trades # <<>>

\* the step is a reject_pending call: the pending decision goes away and no
\* approval is involved
Rejected ==
    /\ pending_decision # NoDecision /\ pending_decision' = NoDecision
    /\ apr' = apr
    /\ ~DecisionApplied

\* C19: reject_pending clears the pending decision and leaves cash, holdings,
\* the trade rows, the persisted snapshot and allowance, last_thought, the
\* rolling history, started_at (in memory and persisted), _last_run_at and
\* the mode unchanged; it calls neither run_once nor execute_trade and no
\* task enters or leaves a callback.
C19_RejectOnlyClears ==
    [][Rejected
         => /\ LedgerUnchanged
            /\ UNCHANGED <<db_allowance, db_started_at, started_at, last_run_at,
                           last_thought, chat_history, mode, running, cyc>>
            /\ ~CycleCalled /\ ~ExecCalled]_vars

C19_Witness ==
    /\ pending_decision = NoDecision
    /\ last_thought.action = "SELL"
    /\ db_trades = <<>>
    /\ cyc[1] = "on_decision"

\* the step is a run_once call that gets as far as the stop transition or a
\* decision
CycleActed == CycleCalled /\ last_cycle' \in {"stopped", "decided"}

\* C20: a cycle that takes the stop transition or obtains a decision (a
\* hold, a trade, a decision queued for approval) enters on_thought exactly
\* once before it ends, and enters it after the step in which it updated
\* the ledger, the rows and the pending decision: the cycle's own steps
\* from there to its end change none of them.
C20_OneNotificationAfterUpdate ==
    [][/\ CycleActed
            => \E t \in 1..MaxTasks :
                   /\ cyc[t] = "idle"
                   /\ cyc'[t] \in {"on_trade", "on_decision", "on_thought"}
                   /\ last_cycle' = "stopped" => cyc'[t] = "on_thought"
       /\ \A t \in 1..MaxTasks :
            /\ (cyc[t] = "idle" /\ cyc'[t] # "idle") => CycleActed
            /\ (cyc[t] \in {"on_trade", "on_decision"} /\ cyc'[t] # cyc[t])
                 => cyc'[t] = "on_thought"
            /\ (cyc[t] = "on_thought" /\ cyc'[t] # cyc[t]) => cyc'[t] = "idle"
            /\ (cyc[t] # "idle" /\ cyc'[t] # cyc[t])
                 => (LedgerUnchanged /\ UNCHANGED <<pending_decision, last_thought, running>>)]_vars

C20_Witness ==
    /\ last_cycle = "stopped"
    /\ \E t, u \in 1..MaxTasks : cyc[t] = "on_thought" /\ cyc[u] = "on_trade"
    /\ db_trades # <<>>
    /\ db_trades[Len(db_trades)].side = "hold"

DepositCalled == last_deposit' # NoDeposit

\* C21: a deposit call either fails with InvalidAmount and changes neither
\* cash nor the recorded allowance, or increases both by the same amount
\* above 0; it fails for every amount that is not above 0 (no call lowers or
\* keeps cash); and cash = allowance + sell totals - buy totals holds after it.
C21_Deposit ==
    [][DepositCalled =>
         /\ last_deposit' \in {"ok", "InvalidAmount"}
         /\ last_deposit' = "InvalidAmount" => UNCHANGED <<cash, db_allowance>>
         /\ last_deposit' = "ok"
              => /\ cash' > cash
                 /\ cash' - cash = db_allowance' - db_allowance
         /\ UNCHANGED <<holdings, db_trades, db_portfolios>>
         /\ cash' = db_allowance' + SumTotals(db_trades', "sell")
                                  - SumTotals(db_trades', "buy")]_vars

C21_Witness ==
    /\ last_deposit = "InvalidAmount"
    /\ db_allowance > 3
    /\ HasRow("buy") /\ HasRow("sell")
    /\ cash # db_allowance

\* the rows of buys and sells (no hold rows), in insertion order
RECURSIVE Fills(_)
Fills(rows) ==
    IF rows = <<>> THEN <<>>
    ELSE IF Head(rows).side = "hold" THEN Fills(Tail(rows))
    ELSE <<Head(rows)>> \o Fills(Tail(rows))

\* the step is an accepted execute_trade call of the given side
Filled(side) == ExecCalled /\ last_exec'.err = "ok" /\ last_exec'.side = side

\* C22: when a buy of q2 at p2 is accepted and the trade before it was a buy
\* of q1 at p1 of the same symbol that opened the position (the holding's
\* quantity is q1), the holding afterwards has quantity q1 + q2 and
\* avg_cost (q1*p1 + q2*p2) / (q1 + q2), as an exact fraction; an accepted
\* sell that leaves part of the position leaves its avg_cost unchanged.
C22_AverageCost ==
    [][/\ (/\ Filled("buy")
           /\ Fills(db_trades) # <<>>
           /\ LET f == Fills(db_trades)
                  first == f[Len(f)]
              IN /\ first.side = "buy"
                 /\ first.symbol = last_exec'.symbol
                 /\ first.symbol \in DOMAIN holdings
                 /\ holdings[first.symbol].quantity = first.quantity)
          => LET f == Fills(db_trades)
                 q1 == f[Len(f)].quantity
                 p1 == f[Len(f)].price
                 q2 == last_exec'.quantity
                 p2 == last_exec'.price
                 h == holdings'[last_exec'.symbol]
             IN /\ h.quantity = q1 + q2
                /\ h.avg_cost.n * (q1 + q2) = (q1 * p1 + q2 * p2) * h.avg_cost.d
                /\ h.avg_cost.d > 0
       /\ (Filled("sell") /\ last_exec'.symbol \in DOMAIN holdings')
          => holdings'[last_exec'.symbol].avg_cost = holdings[last_exec'.symbol].avg_cost]_vars

C22_Witness ==
    /\ Len(db_trades) = 3
    /\ db_trades[1].side = "buy" /\ db_trades[2].side = "buy" /\ db_trades[3].side = "sell"
    /\ db_trades[1].price # db_trades[2].price
    /\ db_trades[1].quantity # db_trades[2].quantity
    /\ "BTC" \in DOMAIN holdings
    /\ holdings["BTC"].avg_cost = [n |-> 4, d |-> 3]
    /\ last_exec.side = "sell" /\ last_exec.err = "ok"

\* the state is the one an accepted buy has just produced and the step is an
\* accepted sell of the same symbol, quantity and price; the buy opened the
\* position (the holding's quantity is the bought quantity)
BuyThenSell ==
    /\ last_exec.side = "buy" /\ last_exec.err = "ok"
    /\ Filled("sell")
    /\ last_exec'.symbol = last_exec.symbol
    /\ last_exec'.quantity = last_exec.quantity
    /\ last_exec'.price = last_exec.price
    /\ holdings[last_exec.symbol].quantity = last_exec.quantity

\* cash before the trade that appended the last row, from the rows before it
CashBeforeLastRow ==
    LET before == SubSeq(db_trades, 1, Len(db_trades) - 1)
    IN  db_allowance + SumTotals(before, "sell") - SumTotals(before, "buy")

\* C23: a buy of q at p of a symbol that is not held, followed at once by a
\* sell of q at p, leaves cash at its value before the buy and the symbol
\* absent from the holdings and from the persisted snapshot.
C23_BuyThenSellRestores ==
    [][BuyThenSell
         => /\ cash' = CashBeforeLastRow
            /\ cash' = cash + last_exec.quantity * last_exec.price
            /\ last_exec.symbol \notin DOMAIN holdings'
            /\ last_exec.symbol \notin DOMAIN db_portfolios']_vars

C23_Witness ==
    /\ last_exec.side = "sell" /\ last_exec.err = "ok"
    /\ Len(db_trades) = 3
    /\ db_trades[1].side = "hold"
    /\ db_trades[2].side = "buy" /\ db_trades[3].side = "sell"
    /\ db_trades[2].total = db_trades[3].total
    /\ db_trades[2].quantity = 2
    /\ cyc[1] = "on_trade" /\ apr[1] # NoDecision
    /\ holdings = EmptyMap /\ db_portfolios = EmptyMap
    /\ cash = db_allowance

\* C24: an execute_trade call with a side other than buy or sell fails with
\* InvalidSide (and only such a call does) and leaves cash, holdings, the
\* trade rows and the persisted snapshot unchanged.
C24_InvalidSide ==
    [][ExecCalled
         => /\ (last_exec'.side \notin {"buy", "sell"}) <=> (last_exec'.err = "InvalidSide")
            /\ (last_exec'.err = "InvalidSide") => LedgerUnchanged]_vars

C24_Witness ==
    /\ last_exec.side = "short" /\ last_exec.err = "InvalidSide"
    /\ "BTC" \in DOMAIN holdings
    /\ holdings["BTC"].quantity >= last_exec.quantity
    /\ db_trades # <<>>
    /\ last_cycle = NoCycle

SkippedCycle == CycleCalled /\ last_cycle' \in {"skip_empty", "skip_throttle"}

\* C25: started_at is stamped by the first run_once call that passes the
\* empty-snapshot and throttle tests, with the time of that call, in memory
\* and in the agent's row alike; once set, no step changes either; a step
\* that is not a run_once call, or a call that is skipped, changes neither.
C25_StartedAtOnce ==
    [][/\ started_at' = db_started_at'
       /\ started_at # NoneVal => started_at' = started_at
       /\ (started_at = NoneVal /\ CycleCalled /\ ~SkippedCycle)
            => (started_at' = now /\ db_started_at' = now)
       /\ (~CycleCalled \/ SkippedCycle)
            => UNCHANGED <<started_at, db_started_at>>]_vars

C25_Witness ==
    /\ started_at # NoneVal /\ started_at = db_started_at
    /\ started_at < now
    /\ oracle_at > started_at
    /\ last_cycle = "decided"
    /\ InFlight = 1..MaxTasks

FeedFetchFailed == last_feed' = "fetch_failed"

\* C26: in live mode a failed fetch notifies no subscriber, leaves the cached
\* snapshot unchanged and puts the loop to sleep; a sleeping loop whose feed
\* has not been stopped goes on to a fetch; the loop ends only when the feed
\* has been stopped; and after every failed fetch the loop fetches again or
\* the feed is stopped.
C26_FetchFailureSkipped ==
    /\ [][/\ FeedFetchFailed
               => /\ feed_mode = "live"
                  /\ UNCHANGED <<prices, delivered, feed_running>>
                  /\ feed_pc' = "sleeping"
          /\ (feed_mode = "live" /\ feed_pc = "sleeping" /\ feed_running
                  /\ feed_pc' # feed_pc)
               => feed_pc' = "fetching"
          /\ (feed_mode = "live" /\ feed_pc # "done" /\ feed_pc' = "done")
               => ~feed_running]_vars
    /\ (last_feed = "fetch_failed") ~> (feed_pc = "fetching" \/ ~feed_running)

C26_Witness ==
    /\ last_feed = "fetch_failed"
    /\ feed_running
    /\ Len(delivered) = 2
    /\ prices = delivered[2]

\* what the subscribers have received is the first feed_next snapshots of
\* the file, in file order
DeliveredInOrder ==
    /\ feed_next <= Len(replay_file.snapshots)
    /\ delivered = SubSeq(replay_file.snapshots, 1, feed_next)

\* C27: in replay mode the subscribers receive a prefix of the file's
\* snapshots in file order, each position at most once; when the loop has
\* ended and the feed was not stopped they have received every snapshot
\* exactly once; after the loop has ended nothing more is delivered; and the
\* loop, once started, ends.
C27_ReplayInOrderOnce ==
    /\ [](feed_mode = "replay"
            => /\ DeliveredInOrder
               /\ (feed_pc = "done" /\ feed_running)
                    => delivered = replay_file.snapshots)
    /\ [][(feed_mode = "replay" /\ feed_pc = "done")
             => UNCHANGED <<delivered, prices, feed_pc, feed_next>>]_vars
    /\ [][(feed_mode = "replay" /\ feed_pc' = "done" /\ feed_pc # "done")
             => (feed_next = Len(replay_file.snapshots) \/ ~feed_running)]_vars
    /\ (feed_mode = "replay" /\ feed_pc # "idle") ~> (feed_pc = "done")

C27_Witness ==
    /\ feed_mode = "replay"
    /\ feed_pc = "done" /\ feed_running
    /\ Len(delivered) = MaxSnapshots
    /\ delivered[1] # delivered[2]
    /\ prices = delivered[Len(delivered)]

\* the step is the create request
Creating == last_registry' = "create"

\* the agent is registered under an id that had no row, its row is active
\* and its cash is the allowance of the request
RegisteredFresh ==
    /\ db_active = NoneVal /\ db_active' = 1
    /\ registered'
    /\ db_trades' = <<>>
    /\ cash' = db_allowance'
    /\ started_at' = NoneVal /\ db_started_at' = NoneVal

\* the step is a load that restores an agent with no trade rows
LoadingUntraded ==
    /\ last_registry' = "load"
    /\ registered'
    /\ db_trades = <<>>

Loading == last_registry' = "load"

\* C29: after a restart, load registers the agent exactly when its row is
\* marked active, with the started_at the row held before the restart (the
\* stamp of its first cycle, which no later step replaces by another), so a
\* restored agent stops when max_duration has elapsed since that first
\* cycle.
C29_LoadRestoresActive ==
    /\ [][Loading
            => /\ registered' = (db_active = 1)
               /\ registered' => /\ started_at' = db_started_at
                                 /\ db_started_at' = db_started_at
               /\ (registered /\ registered') => started_at' = started_at]_vars
    /\ [][(db_started_at # NoneVal /\ db_started_at' # NoneVal)
            => db_started_at' = db_started_at]_vars
    /\ [][(stopped' /\ ~stopped)
            => /\ started_at = db_started_at
               /\ DurationExceeded(max_duration, db_started_at, now)]_vars

C29_Witness ==
    /\ last_registry = "load"
    /\ registered
    /\ started_at # NoneVal
    /\ db_trades # <<>>
    /\ DurationExceeded(max_duration, started_at, now)

\* the step is AgentRegistry.remove
Removing == last_registry' = "remove"

\* the trade rows of the pre-state are the first rows of the post-state,
\* unaltered
TradeRowsKept ==
    /\ Len(db_trades') >= Len(db_trades)
    /\ SubSeq(db_trades', 1, Len(db_trades)) = db_trades

\* C30: remove evicts the agent from the registry and marks its row
\* inactive, leaving its trade rows as they were; a later load does not
\* restore it; and no step of the system deletes or modifies a trade row.
C30_RemoveKeepsTrades ==
    /\ [][Removing
            => /\ registered /\ ~registered'
               /\ db_active' = 0
               /\ db_trades' = db_trades]_vars
    /\ [][(Loading /\ db_active = 0) => ~registered']_vars
    /\ [](db_active = 0 => ~registered)
    /\ [][TradeRowsKept]_vars

C30_Witness ==
    /\ last_registry = "load"
    /\ db_active = 0
    /\ ~registered
    /\ db_trades # <<>>
    /\ \E i \in 1..Len(db_trades) : db_trades[i].side = "buy"

\* a task enters on_decision in the step
DecisionNotified == \E t \in 1..MaxTasks : cyc[t] # "on_decision" /\ cyc'[t] = "on_decision"

\* C32: a cycle of an advisory agent that obtains a decision leaves cash,
\* holdings, the trade rows and the persisted snapshot unchanged, calls
\* neither execute_decision nor execute_trade, stores the decision as the
\* pending decision and as last_thought and enters on_decision (which no
\* other step enters); and while the mode is advisory the only steps that
\* change the ledger or the rows are approvals.
C32_AdvisoryCycleQueues ==
    [][/\ AdvisoryDecided
            => /\ LedgerUnchanged
               /\ ~DecisionApplied /\ ~ExecCalled
               /\ pending_decision' = last_reply'
               /\ last_thought' = AdvisoryThought(last_reply')
               /\ DecisionNotified
               /\ \A t \in 1..MaxTasks : cyc'[t] = "on_trade" => cyc[t] = "on_trade"
       /\ DecisionNotified => AdvisoryDecided
       /\ (mode = "advisory" /\ ~LedgerUnchanged) => Approved]_vars

C32_Witness ==
    /\ mode = "advisory"
    /\ last_reply = Decision("buy", "BTC", 1)
    /\ pending_decision = last_reply
    /\ last_thought.action = "buy"
    /\ cyc[1] = "on_decision"
    /\ cash = 2 /\ holdings = EmptyMap
    /\ PriceOf(prices, "BTC") = 1
    /\ db_trades # <<>>

\* how many tasks (cycles and approvals) enter on_trade in the step
TradesNotified ==
    Cardinality({t \in 1..MaxTasks : cyc[t] # "on_trade" /\ cyc'[t] = "on_trade"})
    + Cardinality({a \in 1..MaxConnections : apr[a] = NoDecision /\ apr'[a] # NoDecision})

\* the row the step appends is the record of the decision it applied
LastRowIsApplied ==
    LET row == db_trades'[Len(db_trades')]
        action == Lower(Get(last_applied', "action", "hold"))
    IN  /\ row.side = action
        /\ action # "hold" => /\ row.symbol = last_exec'.symbol
                              /\ row.quantity = last_exec'.quantity
                              /\ row.price = last_exec'.price

\* C33: a step appends at most one trade row; the step that appends a row
\* (an accepted buy or sell, or a hold, applied by a cycle or an approval)
\* is the step in which on_trade is entered, by exactly one task and with
\* the row already appended, and on_trade is entered in no other step: not
\* for a trade the ledger rejects, not for a decision that is discarded.
C33_OneTradeNotification ==
    [][/\ db_trades' = db_trades \/ db_trades' = Append(db_trades, db_trades'[Len(db_trades')])
       /\ db_trades' # db_trades
            => (TradesNotified = 1 /\ DecisionApplied /\ LastRowIsApplied)
       /\ db_trades' = db_trades => TradesNotified = 0
       /\ (ExecCalled /\ last_exec'.err # "ok") => TradesNotified = 0
       /\ (DecisionApplied /\ IsNoOp(last_applied', prices)) => TradesNotified = 0]_vars

C33_Witness ==
    /\ last_exec.err = "ok" /\ last_exec.side = "sell"
    /\ last_cycle = "decided"
    /\ cyc[1] = "on_trade"
    /\ Len(db_trades) = MaxRows
    /\ db_trades[Len(db_trades)].side = "sell"
    /\ db_trades[1].side = "hold"

\* messages 2k-1 and 2k of the history are the user and the assistant
\* message of one exchange, and each exchange is the one after the exchange
\* before it
CompletePairsInOrder(h) ==
    /\ Len(h) % 2 = 0
    /\ \A k \in 1..(Len(h) \div 2) :
          /\ h[2 * k - 1].role = "user" /\ h[2 * k].role = "assistant"
          /\ h[2 * k - 1].n = h[2 * k].n
          /\ k > 1 => h[2 * k].n = h[2 * k - 2].n + 1

\* C34: the rolling history never holds more than MAX_HISTORY_PAIRS
\* exchanges (20 messages) and always consists of complete user/assistant
\* pairs in the order of the exchanges; a step changes it only by appending
\* the exchange of a cycle whose reply parsed, after dropping the oldest
\* pair if the history was full; a cycle whose oracle call or parsing fails
\* leaves it as it was.
C34_RollingHistory ==
    /\ [](/\ Len(chat_history) <= 2 * MAX_HISTORY_PAIRS
          /\ CompletePairsInOrder(chat_history))
    /\ [][/\ chat_history' # chat_history
                => /\ last_reply' # NoDecision
                   /\ chat_history'
                        = (IF Len(chat_history) = 2 * MAX_HISTORY_PAIRS
                           THEN Tail(Tail(chat_history)) ELSE chat_history)
                          \o ExchangePair(NextExchange(chat_history))
          /\ last_reply' # NoDecision => chat_history' # chat_history
          /\ last_cycle' = "error" => chat_history' = chat_history]_vars

C34_Witness ==
    /\ Len(chat_history) = 2 * MAX_HISTORY_PAIRS
    /\ chat_history[1].n = MaxExchanges
    /\ last_cycle = "decided"
    /\ mode = "advisory"

\* C38: a decision is pending only while the agent's mode is advisory.
C38_PendingOnlyInAdvisory == pending_decision # NoDecision => mode = "advisory"

\* a last_thought with its action in lower case
Normalised(th) == [th EXCEPT !.action = Lower(th.action)]

\* C37: last_thought is the latest decision the oracle produced: a cycle
\* that obtains a decision stores it there, and no other step replaces what
\* is stored by another decision (the spelling of the action aside).
C37_LastThoughtIsLatest ==
    [][/\ last_reply' # NoDecision => Normalised(last_thought') = Thought(last_reply')
       /\ last_reply' = NoDecision
            => Normalised(last_thought') = Normalised(last_thought)]_vars

\* C35: a decision is applied at most once, however approvals interleave:
\* there are never more trade rows than decisions the oracle has produced.
C35_AppliedAtMostOnce == Len(db_trades) <= NextExchange(chat_history) - 1

\* C36: an approval that completes clears the pending decision only if it
\* is the decision that approval applied: a decision queued by a cycle in
\* the meantime stays pending.
C36_ClearsOnlyApplied ==
    [][\A a \in 1..MaxConnections :
          (apr[a] # NoDecision /\ apr'[a] = NoDecision /\ pending_decision # apr[a])
             => pending_decision' = pending_decision]_vars

\* stop has been called on a feed that was started
FeedStopped == ~feed_running /\ feed_pc # "idle"

\* C39: once stop has been called on the feed, the subscribers are not
\* called with another snapshot, in live or in replay mode, and the feed
\* loop ends.
C39_NoNotifyAfterStop ==
    /\ [][FeedStopped => delivered' = delivered]_vars
    /\ FeedStopped ~> (feed_pc = "done")

\* the same for a replaying feed alone, whose loop tests _running before
\* every snapshot
C39_ReplayStops ==
    /\ [][(FeedStopped /\ feed_mode = "replay") => delivered' = delivered]_vars
    /\ FeedStopped ~> (feed_pc = "done")

\* C40: once the agent has taken the stop transition, a later run_once call
\* does not enter on_thought again (until set_agent_duration gives the
\* agent a new session limit).
C40_StoppedNotifiedOnce ==
    [][(stopped /\ CycleCalled)
         => \A t \in 1..MaxTasks : cyc'[t] = "on_thought" => cyc[t] = "on_thought"]_vars

\* the tasks suspended in a callback of a cycle
Suspended == {t \in 1..MaxTasks : cyc[t] \in {"on_trade", "on_thought"}}

\* C31: while an oracle call is outstanding, the feed loop and every cycle
\* that is suspended in a callback can take their next step.
C31_OracleDoesNotBlock ==
    Thinking => /\ ENABLED FeedTurn
                /\ \A t \in Suspended : ENABLED CycleTurn(t)

\* when no oracle call is outstanding they can
LoopServesAll ==
    ~Thinking => /\ ENABLED FeedTurn
                 /\ \A t \in Suspended : ENABLED CycleTurn(t)

====
